---- MODULE Spec2Model ----
(***************************************************************************)
(* Card composer and bounded-retry delivery of teams_tool.py.              *)
(*                                                                         *)
(* Strings that the code inspects character by character (field values)    *)
(* are sequences of one-character strings; fixed texts and messages are    *)
(* atomic strings.  A Python value is a record [k |-> kind, s |-> text],   *)
(* where s is the text str(value) yields (when str(value) works).          *)
(***************************************************************************)
EXTENDS Integers, Sequences, FiniteSets, TLC

(***************************************************************************)
(* Bounds of the model                                                     *)
(***************************************************************************)
\* largest max_retries a TeamsConfig of the model is given
MaxRetriesBound == 3
\* number of notification calls that exist in the model
NumCalls == 2

Calls == 1..NumCalls

(***************************************************************************)
(* TeamsConfig defaults                                                    *)
(***************************************************************************)
DefaultMaxRetries == 3

\* max_retries values of a TeamsConfig handed to TeamsNotification directly
MaxRetriesValues == (-1)..MaxRetriesBound

(***************************************************************************)
(* Python values                                                           *)
(***************************************************************************)
V(kind, str) == [k |-> kind, s |-> str]

Absent == V("absent", <<>>)     \* key missing from the dict
NoneV == V("none", <<>>)        \* None
Str(str) == V("str", str)       \* a str
Static(text) == V("str", <<text>>)   \* a fixed text of the source, kept as one token

\* the glyph counted by lead_rating.count (U+2605 in the source)
StarGlyph == "*"

\* bool(value) for the values that have a truth value
Truthy(v) ==
    CASE v.k = "str" -> v.s # <<>>
      [] v.k = "int" -> v.s # <<"0">>
      [] v.k = "bool" -> v.s = <<"T", "r", "u", "e">>
      [] v.k \in {"obj", "badstr", "badboth"} -> TRUE
      [] OTHER -> FALSE

(***************************************************************************)
(* Messages: a template of the source and the texts formatted into it      *)
(***************************************************************************)
Msg(tmpl, args) == [tmpl |-> tmpl, args |-> args]
NoMsg == Msg("", <<>>)

\* the message with f"<prefix>{...}" put in front of it
Prefixed(prefix, m) == Msg(prefix, <<m.tmpl>> \o m.args)

\* TRUE iff the text occurs among the parts formatted into the message
Carries(m, text) == \E i \in 1..Len(m.args) : m.args[i] = text

(***************************************************************************)
(* Exceptions: the type name and the message str(e) yields                 *)
(***************************************************************************)
Exc(type, msg) == [type |-> type, msg |-> msg]
NoExc == Exc("", NoMsg)

(***************************************************************************)
(* validate_and_convert_to_string                                          *)
(*   result: [exc |-> exception raised or NoExc, val |-> the str returned] *)
(*   a ValueError built by the handler names the field; repr(value) is     *)
(*   evaluated inside the handler and may itself raise                     *)
(***************************************************************************)
ReprText(v) == IF v.k = "badbool" THEN "<BadBool object>" ELSE "<BadStr object>"

ValueErrorFor(field_name, v, errtext) ==
    Exc("ValueError",
        Msg("Tool input field '{}' must be convertible to a string. Value: {}. Error: {}",
            <<field_name, ReprText(v), errtext>>))

\* the falsy test of line 46 made before the isinstance test of line 43,
\* without its `not isinstance` part
validate_and_convert_to_string_falsy_first(value, field_name) ==
    IF value.k = "none" THEN [exc |-> NoExc, val |-> <<>>]
    ELSE IF value.k = "badbool"
         THEN [exc |-> ValueErrorFor(field_name, value, "no bool"), val |-> <<>>]
    ELSE IF ~Truthy(value) THEN [exc |-> NoExc, val |-> <<>>]
    ELSE IF value.k = "badstr"
         THEN [exc |-> ValueErrorFor(field_name, value, "no str"), val |-> <<>>]
    ELSE IF value.k = "badboth"
         THEN [exc |-> Exc("RuntimeError", Msg("no repr", <<>>)), val |-> <<>>]
    ELSE [exc |-> NoExc, val |-> value.s]

validate_and_convert_to_string(value, field_name) ==
    IF value.k = "none" THEN [exc |-> NoExc, val |-> <<>>]
    ELSE IF value.k \in {"int", "bool"} THEN [exc |-> NoExc, val |-> value.s]
    ELSE IF value.k = "badbool"
         THEN [exc |-> ValueErrorFor(field_name, value, "no bool"), val |-> <<>>]
    ELSE IF ~Truthy(value) THEN [exc |-> NoExc, val |-> <<>>]
    ELSE IF value.k = "badstr"
         THEN [exc |-> ValueErrorFor(field_name, value, "no str"), val |-> <<>>]
    ELSE IF value.k = "badboth"
         THEN [exc |-> Exc("RuntimeError", Msg("no repr", <<>>)), val |-> <<>>]
    ELSE [exc |-> NoExc, val |-> value.s]

(***************************************************************************)
(* str methods used by _build_payload                                      *)
(***************************************************************************)
LowerChars == <<"a", "b", "c", "d", "e", "f", "g", "h", "i", "j", "k", "l", "m",
                "n", "o", "p", "q", "r", "s", "t", "u", "v", "w", "x", "y", "z">>
UpperChars == <<"A", "B", "C", "D", "E", "F", "G", "H", "I", "J", "K", "L", "M",
                "N", "O", "P", "Q", "R", "S", "T", "U", "V", "W", "X", "Y", "Z">>

IsLower(ch) == \E i \in 1..Len(LowerChars) : LowerChars[i] = ch
IsUpper(ch) == \E i \in 1..Len(UpperChars) : UpperChars[i] = ch
IsCased(ch) == IsLower(ch) \/ IsUpper(ch)
ToUpper(ch) ==
    IF IsLower(ch) THEN UpperChars[CHOOSE i \in 1..Len(LowerChars) : LowerChars[i] = ch]
    ELSE ch
ToLower(ch) ==
    IF IsUpper(ch) THEN LowerChars[CHOOSE i \in 1..Len(UpperChars) : UpperChars[i] = ch]
    ELSE ch

\* capitalises the first character only, as s.capitalize() would a lower-case s
Title_first_only(s) ==
    [i \in 1..Len(s) |-> IF i = 1 THEN ToUpper(s[i]) ELSE s[i]]

\* s.title(): a cased character is upper-cased after an uncased one (or at the
\* start) and lower-cased after a cased one
Title(s) ==
    [i \in 1..Len(s) |->
        IF ~IsCased(s[i]) THEN s[i]
        ELSE IF i = 1 \/ ~IsCased(s[i - 1]) THEN ToUpper(s[i])
        ELSE ToLower(s[i])]

\* s.replace(old, new) for one-character old and new
Replace(s, old, new) == [i \in 1..Len(s) |-> IF s[i] = old THEN new ELSE s[i]]

\* s.split(sep)[0]: the part before the first sep, the whole of s without one
SplitFirst(s, sep) ==
    IF \E i \in 1..Len(s) : s[i] = sep
    THEN SubSeq(s, 1, (CHOOSE i \in 1..Len(s) :
                          s[i] = sep /\ \A j \in 1..(i - 1) : s[j] # sep) - 1)
    ELSE s

\* s.count(ch)
Count(s, ch) == Cardinality({i \in 1..Len(s) : s[i] = ch})

(***************************************************************************)
(* card_data: the nested dict, flattened to "section.key" paths.  A path   *)
(* the dict does not hold maps to Absent.                                  *)
(***************************************************************************)
CardKeys ==
    {"user.name", "user.phone", "user.email", "user.position", "user.note",
     "user.perspective", "user.other_position", "user.tags",
     "evaluation.lead_rating", "evaluation.estimated_mrr",
     "evaluation.last_month_pv", "evaluation.positive_factors",
     "evaluation.negative_factors",
     "company.name", "company.website", "company.info",
     "company.technology_name", "company.form_message",
     "company.similar_customers", "company.industry", "company.employee_range",
     "company.tags", "company.webpage_tags", "company.webpage_info",
     "company.pte_tags",
     "image.company.name", "image.company.url", "image.user.name",
     "image.user.url", "mention.name", "mention.email", "source_url"}

\* card_data = {} (also what _build_payload makes of card_data = None)
EmptyCard == [key \in CardKeys |-> Absent]

DefaultSourceUrl == Static("https://app.kocoro.ai/")
DefaultUserPhoto == Static("https://i.imgur.com/Nho5TnJb.jpg")

\* d.get(key, default)
GetOr(card, key, default) == IF card[key].k = "absent" THEN default ELSE card[key]

\* `if d.get(key):`
Has(card, key) == Truthy(card[key])

(***************************************************************************)
(* The document: body elements are [sec, style, rows]; a row is a label    *)
(* and the values of its text blocks.  ColumnSet/Column/TextBlock nesting  *)
(* and the fixed presentation attributes are left out.                     *)
(***************************************************************************)
Row(label, items) == [label |-> label, items |-> items]
Section(sec, style, rows) == [sec |-> sec, style |-> style, rows |-> rows]
If(cond, seq) == IF cond THEN seq ELSE <<>>

HeaderSection ==
    Section("header", "",
            <<Row("", <<Static("New Lead - User Sign up (via Research Agent)")>>)>>)

\* the company section with both columns whenever it is present
CompanySection_both_columns(card) ==
    If(Has(card, "company.name") \/ Has(card, "image.company.url"),
       <<Section("company", "emphasis",
           <<Row("name", <<card["company.name"]>>),
             Row("image",
                 <<card["image.company.url"],
                   Str(GetOr(card, "image.company.name", Str(<<>>)).s
                       \o <<"_logo">>)>>)>>)>>)

\* lines 108-124
CompanySection(card) ==
    If(Has(card, "company.name") \/ Has(card, "image.company.url"),
       <<Section("company", "emphasis",
           If(Has(card, "company.name"), <<Row("name", <<card["company.name"]>>)>>)
           \o If(Has(card, "image.company.url"),
                 <<Row("image",
                       <<card["image.company.url"],
                         Str(GetOr(card, "image.company.name", Str(<<>>)).s
                             \o <<"_logo">>)>>)>>))>>)

\* the user section gated on the name or the photo URL
UserSection_photo_gate(card) ==
    If(Has(card, "user.name") \/ Has(card, "image.user.url"),
       <<Section("user", "",
           <<Row("photo", <<GetOr(card, "image.user.url", DefaultUserPhoto),
                            card["user.name"]>>),
             Row("name", <<card["user.name"]>>)>>)>>)

\* lines 126-147; the contact rows end up inside the name column
UserSection(card) ==
    If(Has(card, "user.name"),
       <<Section("user", "",
           <<Row("photo", <<GetOr(card, "image.user.url", DefaultUserPhoto),
                            card["user.name"]>>),
             Row("name", <<card["user.name"]>>)>>
           \o If(Has(card, "user.phone"), <<Row("Phone", <<card["user.phone"]>>)>>)
           \o If(Has(card, "user.email"), <<Row("Email", <<card["user.email"]>>)>>))>>)

\* the additional-info rows with the tags shown in a note row of their own
\* when the note is empty
UserAdditionalRows_tags_without_note(card) ==
    If(Has(card, "user.position"),
       <<Row("Position", <<card["user.position"]>>
                         \o If(Has(card, "user.other_position"),
                               <<card["user.other_position"]>>))>>)
    \o (IF Has(card, "user.note")
        THEN <<Row("Note", <<card["user.note"]>>
                           \o If(Has(card, "user.tags"), <<card["user.tags"]>>))>>
        ELSE If(Has(card, "user.tags"), <<Row("Note", <<card["user.tags"]>>)>>))
    \o If(Has(card, "user.perspective"),
          <<Row("Perspective", <<card["user.perspective"]>>)>>)

\* lines 149-167
UserAdditionalRows(card) ==
    If(Has(card, "user.position"),
       <<Row("Position", <<card["user.position"]>>
                         \o If(Has(card, "user.other_position"),
                               <<card["user.other_position"]>>))>>)
    \o If(Has(card, "user.note"),
          <<Row("Note", <<card["user.note"]>>
                        \o If(Has(card, "user.tags"), <<card["user.tags"]>>))>>)
    \o If(Has(card, "user.perspective"),
          <<Row("Perspective", <<card["user.perspective"]>>)>>)

UserAdditionalSection(card) ==
    If(UserAdditionalRows(card) # <<>>,
       <<Section("user_additional_info", "", UserAdditionalRows(card))>>)

\* f"[{url}]({url})"
Link(url) == Str(<<"[">> \o url.s \o <<"](">> \o url.s \o <<")">>)

\* " ".join(filter(None, [industry, tags]))
IndustryTags(card) ==
    LET a == card["company.industry"]
        b == card["company.tags"]
    IN  IF Truthy(a) /\ Truthy(b) THEN a.s \o <<" ">> \o b.s
        ELSE IF Truthy(a) THEN a.s
        ELSE IF Truthy(b) THEN b.s
        ELSE <<>>

\* lines 169-200
CompanyDetailsRows(card) ==
    If(Has(card, "company.website"),
       <<Row("Site", <<Link(card["company.website"])>>
                     \o If(Has(card, "company.webpage_info"),
                           <<card["company.webpage_info"]>>)
                     \o If(Has(card, "company.webpage_tags"),
                           <<card["company.webpage_tags"]>>))>>)
    \o If(Has(card, "company.info"),
          <<Row("CompanyInfo",
                <<card["company.info"]>>
                \o If(Has(card, "company.employee_range"),
                      <<Str(<<"employees:">> \o card["company.employee_range"].s)>>)
                \o If(IndustryTags(card) # <<>>, <<Str(IndustryTags(card))>>)
                \o If(Has(card, "company.technology_name"),
                      <<Str(<<"technology:">>
                            \o card["company.technology_name"].s)>>))>>)
    \o If(Has(card, "company.pte_tags"),
          <<Row("CompetitorCases", <<card["company.pte_tags"]>>)>>)
    \o If(Has(card, "company.similar_customers"),
          <<Row("SimilarCustomers", <<card["company.similar_customers"]>>)>>)
    \o If(Has(card, "company.form_message"),
          <<Row("FormMessage", <<card["company.form_message"]>>)>>)

CompanyDetailsSection(card) ==
    If(CompanyDetailsRows(card) # <<>>,
       <<Section("company_details", "", CompanyDetailsRows(card))>>)

\* the warning style from five stars on
EvaluationStyle_five_stars(card) ==
    IF Has(card, "evaluation.lead_rating")
       /\ Count(card["evaluation.lead_rating"].s, StarGlyph) >= 5
    THEN "warning" ELSE ""

\* lines 202-227
EvaluationStyle(card) ==
    IF Has(card, "evaluation.lead_rating")
       /\ Count(card["evaluation.lead_rating"].s, StarGlyph) >= 4
    THEN "warning" ELSE ""

\* the evaluation rows without the `elif` of line 215: no page-view row
\* unless the website is given too
EvaluationRows_pv_needs_site(card) ==
    If(Has(card, "evaluation.lead_rating"),
       <<Row("LeadRating", <<card["evaluation.lead_rating"]>>)>>)
    \o If(Has(card, "evaluation.last_month_pv") /\ Has(card, "company.website"),
          <<Row("LastMonthPV",
                <<Str(card["evaluation.last_month_pv"].s \o <<" (">>
                      \o Link(card["company.website"]).s \o <<")">>)>>)>>)
    \o If(Has(card, "evaluation.estimated_mrr"),
          <<Row("EstimatedMRR", <<card["evaluation.estimated_mrr"]>>)>>)
    \o If(Has(card, "evaluation.positive_factors"),
          <<Row("PositiveFactors", <<card["evaluation.positive_factors"]>>)>>)
    \o If(Has(card, "evaluation.negative_factors"),
          <<Row("NegativeFactors", <<card["evaluation.negative_factors"]>>)>>)

\* the evaluation rows with the page views as the text of the link
EvaluationRows_pv_as_link_text(card) ==
    If(Has(card, "evaluation.lead_rating"),
       <<Row("LeadRating", <<card["evaluation.lead_rating"]>>)>>)
    \o (IF Has(card, "evaluation.last_month_pv") /\ Has(card, "company.website")
        THEN <<Row("LastMonthPV",
                   <<Str(<<"[">> \o card["evaluation.last_month_pv"].s \o <<"](">>
                         \o card["company.website"].s \o <<")">>)>>)>>
        ELSE If(Has(card, "evaluation.last_month_pv"),
                <<Row("LastMonthPV", <<Str(card["evaluation.last_month_pv"].s)>>)>>))
    \o If(Has(card, "evaluation.estimated_mrr"),
          <<Row("EstimatedMRR", <<card["evaluation.estimated_mrr"]>>)>>)
    \o If(Has(card, "evaluation.positive_factors"),
          <<Row("PositiveFactors", <<card["evaluation.positive_factors"]>>)>>)
    \o If(Has(card, "evaluation.negative_factors"),
          <<Row("NegativeFactors", <<card["evaluation.negative_factors"]>>)>>)

EvaluationRows(card) ==
    If(Has(card, "evaluation.lead_rating"),
       <<Row("LeadRating", <<card["evaluation.lead_rating"]>>)>>)
    \o (IF Has(card, "evaluation.last_month_pv") /\ Has(card, "company.website")
        THEN <<Row("LastMonthPV",
                   <<Str(card["evaluation.last_month_pv"].s \o <<" (">>
                         \o Link(card["company.website"]).s \o <<")">>)>>)>>
        ELSE If(Has(card, "evaluation.last_month_pv"),
                <<Row("LastMonthPV", <<Str(card["evaluation.last_month_pv"].s)>>)>>))
    \o If(Has(card, "evaluation.estimated_mrr"),
          <<Row("EstimatedMRR", <<card["evaluation.estimated_mrr"]>>)>>)
    \o If(Has(card, "evaluation.positive_factors"),
          <<Row("PositiveFactors", <<card["evaluation.positive_factors"]>>)>>)
    \o If(Has(card, "evaluation.negative_factors"),
          <<Row("NegativeFactors", <<card["evaluation.negative_factors"]>>)>>)

EvaluationSection(card) ==
    If(EvaluationRows(card) # <<>>,
       <<Section("evaluation", EvaluationStyle(card), EvaluationRows(card))>>)

\* lines 229-244
MentionName(card) ==
    IF Has(card, "mention.name") THEN card["mention.name"]
    ELSE Str(Title(Replace(Replace(SplitFirst(card["mention.email"].s, "@"),
                                   ".", " "), "_", " ")))

AtText(name) == Str(<<"<at>">> \o name.s \o <<"</at>">>)

MentionSection(card) ==
    If(Has(card, "mention.email"),
       <<Section("mention", "", <<Row("", <<AtText(MentionName(card))>>)>>)>>)

\* the entity named by mention.name as given, not by the name the row shows
MentionEntities_given_name(card) ==
    If(Has(card, "mention.email"),
       <<[text |-> AtText(MentionName(card)), id |-> card["mention.email"],
          name |-> card["mention.name"]]>>)

MentionEntities(card) ==
    If(Has(card, "mention.email"),
       <<[text |-> AtText(MentionName(card)), id |-> card["mention.email"],
          name |-> MentionName(card)]>>)

\* the first exception _build_payload raises on this card_data, or NoExc:
\* str operations applied to a value that is not a str (lines 121, 184, 207, 235)
build_payload_exc(card) ==
    IF Has(card, "image.company.url")
       /\ card["image.company.name"].k \in {"none", "int"}
    THEN Exc("TypeError", Msg("unsupported operand type(s) for +", <<>>))
    ELSE IF Has(card, "company.info")
            /\ \E key \in {"company.industry", "company.tags"} :
                  Truthy(card[key]) /\ card[key].k # "str"
    THEN Exc("TypeError", Msg("sequence item: expected str instance", <<>>))
    ELSE IF Has(card, "evaluation.lead_rating")
            /\ card["evaluation.lead_rating"].k # "str"
    THEN Exc("AttributeError", Msg("object has no attribute 'count'", <<>>))
    ELSE IF Has(card, "mention.email") /\ ~Has(card, "mention.name")
            /\ card["mention.email"].k # "str"
    THEN Exc("AttributeError", Msg("object has no attribute 'split'", <<>>))
    ELSE NoExc

\* _build_payload: [exc |-> the exception raised or NoExc, doc |-> the payload]
NoDoc == [body |-> <<>>, action_url |-> Absent, entities |-> <<>>]

\* _build_payload with the evaluation section appended before the company
\* details section
build_payload_evaluation_first(card) ==
    IF build_payload_exc(card) # NoExc
    THEN [exc |-> build_payload_exc(card), doc |-> NoDoc]
    ELSE [exc |-> NoExc,
          doc |-> [body |-> <<HeaderSection>> \o CompanySection(card)
                            \o UserSection(card) \o UserAdditionalSection(card)
                            \o EvaluationSection(card)
                            \o CompanyDetailsSection(card) \o MentionSection(card),
                   action_url |-> GetOr(card, "source_url", DefaultSourceUrl),
                   entities |-> MentionEntities(card)]]

build_payload(card) ==
    IF build_payload_exc(card) # NoExc
    THEN [exc |-> build_payload_exc(card), doc |-> NoDoc]
    ELSE [exc |-> NoExc,
          doc |-> [body |-> <<HeaderSection>> \o CompanySection(card)
                            \o UserSection(card) \o UserAdditionalSection(card)
                            \o CompanyDetailsSection(card)
                            \o EvaluationSection(card) \o MentionSection(card),
                   action_url |-> GetOr(card, "source_url", DefaultSourceUrl),
                   entities |-> MentionEntities(card)]]

(***************************************************************************)
(* TeamsNotificationTool.forward: inputs, validation, custom_data          *)
(***************************************************************************)
\* the parameters of forward, in the order locals() yields them
InputOrder ==
    <<"LeadCompanyName", "CompanyInfo_Short", "userEmail", "userName",
      "UserInfo_Short", "UserTitle_ThisCompany", "PersonalOpinionPreference",
      "Top5Cases_Name", "account_phone", "Image_URL_companyLogo",
      "LeadScoreLevel", "ReasonforPrioritization", "ReasonforDeprioritization",
      "LastMonthPV", "potential_mrr", "refinedURL", "technology_name",
      "formMessage", "UserTitle_OtherCompany", "CompanyIndustry",
      "employee_range", "UserTags", "CompanyTags", "WebPageTags",
      "WebPageInfo_Short", "PTECompetitorCaseStudyTags", "Image_URL_userPhoto",
      "mention_name", "mention_email", "source_url">>

InputNames == {InputOrder[i] : i \in 1..Len(InputOrder)}

\* forward called with no argument: every parameter at its default ""
DefaultArgs == [name \in InputNames |-> Str(<<>>)]

\* line 383: f"...{LeadCompanyName or 'N/A'}" takes bool() and then str() of the
\* argument, outside every try block
log_request_exc(args) ==
    LET v == args["LeadCompanyName"]
    IN  IF v.k = "badbool" THEN Exc("RuntimeError", Msg("no bool", <<>>))
        ELSE IF v.k = "badstr" THEN Exc("TypeError", Msg("no str", <<>>))
        ELSE IF v.k = "badboth" THEN Exc("RuntimeError", Msg("no repr", <<>>))
        ELSE NoExc

\* lines 391-394: the exception of the first input that fails, or NoExc
validation_exc(args) ==
    LET bad == {i \in 1..Len(InputOrder) :
                  validate_and_convert_to_string(args[InputOrder[i]],
                                                 InputOrder[i]).exc # NoExc}
    IN  IF bad = {} THEN NoExc
        ELSE LET first == CHOOSE i \in bad : \A j \in bad : i <= j
             IN  validate_and_convert_to_string(args[InputOrder[first]],
                                                InputOrder[first]).exc

\* s.replace(" ", "")
RemoveSpaces(s) == SelectSeq(s, LAMBDA ch : ch # " ")

\* lines 391-399: data
validated_data(args) ==
    [name \in InputNames |->
        LET s == validate_and_convert_to_string(args[name], name).val
        IN  IF name \in {"Image_URL_companyLogo", "refinedURL", "Image_URL_userPhoto"}
            THEN RemoveSpaces(s) ELSE s]

\* lines 406-434: custom_data
custom_data(data) ==
    [key \in CardKeys |->
        CASE key = "user.name" -> Str(data["userName"])
          [] key = "user.phone" -> Str(data["account_phone"])
          [] key = "user.email" -> Str(data["userEmail"])
          [] key = "user.position" -> Str(data["UserTitle_ThisCompany"])
          [] key = "user.note" -> Str(data["UserInfo_Short"])
          [] key = "user.perspective" -> Str(data["PersonalOpinionPreference"])
          [] key = "user.other_position" -> Str(data["UserTitle_OtherCompany"])
          [] key = "user.tags" -> Str(data["UserTags"])
          [] key = "evaluation.lead_rating" -> Str(data["LeadScoreLevel"])
          [] key = "evaluation.estimated_mrr" -> Str(data["potential_mrr"])
          [] key = "evaluation.last_month_pv" -> Str(data["LastMonthPV"])
          [] key = "evaluation.positive_factors" -> Str(data["ReasonforPrioritization"])
          [] key = "evaluation.negative_factors" -> Str(data["ReasonforDeprioritization"])
          [] key = "company.name" -> Str(data["LeadCompanyName"])
          [] key = "company.website" -> Str(data["refinedURL"])
          [] key = "company.info" -> Str(data["CompanyInfo_Short"])
          [] key = "company.technology_name" -> Str(data["technology_name"])
          [] key = "company.form_message" -> Str(data["formMessage"])
          [] key = "company.similar_customers" -> Str(data["Top5Cases_Name"])
          [] key = "company.industry" -> Str(data["CompanyIndustry"])
          [] key = "company.employee_range" -> Str(data["employee_range"])
          [] key = "company.tags" -> Str(data["CompanyTags"])
          [] key = "company.webpage_tags" -> Str(data["WebPageTags"])
          [] key = "company.webpage_info" -> Str(data["WebPageInfo_Short"])
          [] key = "company.pte_tags" -> Str(data["PTECompetitorCaseStudyTags"])
          [] key = "image.company.name" -> Str(data["LeadCompanyName"])
          [] key = "image.company.url" -> Str(data["Image_URL_companyLogo"])
          [] key = "image.user.name" -> Str(data["userName"])
          [] key = "image.user.url" ->
                IF data["Image_URL_userPhoto"] # <<>>
                THEN Str(data["Image_URL_userPhoto"]) ELSE DefaultUserPhoto
          [] key = "mention.name" ->
                IF data["mention_email"] # <<>> THEN Str(data["mention_name"])
                ELSE Absent
          [] key = "mention.email" ->
                IF data["mention_email"] # <<>> THEN Str(data["mention_email"])
                ELSE Absent
          [] key = "source_url" -> Str(data["source_url"])]

\* line 403
validation_failed(e) == Prefixed("Input validation failed: {}", e.msg)

\* line 450
tool_execution_failed(e) ==
    Msg("Tool execution failed: An unexpected error occurred ({}).", <<e.type>>)

(***************************************************************************)
(* TeamsNotification._send_with_retry: what one POST can end in            *)
(***************************************************************************)
Outcome(kind, status, body, exc) ==
    [kind |-> kind, status |-> status, body |-> body, exc |-> exc]

\* response status codes and response bodies the endpoint answers with
StatusCodes == {200, 201, 204, 304, 404, 500}
Bodies == {"1", "ok"}

\* exceptions of requests.post that are no RequestException
OtherExceptions ==
    {Exc("TypeError", Msg("Object is not JSON serializable", <<>>)),
     Exc("UnicodeError", Msg("label too long", <<>>))}

ConnectionError == Exc("ConnectionError", Msg("Connection aborted", <<>>))

Outcomes ==
    {Outcome("timeout", 0, "", NoExc), Outcome("request_error", 0, "", ConnectionError)}
    \cup {Outcome("response", st, b, NoExc) : st \in StatusCodes, b \in Bodies}
    \cup {Outcome("exception", 0, "", e) : e \in OtherExceptions}

\* lines 253-258: the document POST number `attempt` carries (json=payload)
post_json_stamped(payload, attempt) ==
    [payload EXCEPT !.entities = @ \o <<[text |-> Str(<<"attempt">>),
                                         id |-> Str(<<ToString(attempt)>>),
                                         name |-> Str(<<>>)]>>]

post_json(payload, attempt) == payload

\* response.raise_for_status(): raises HTTPError for a 4xx or 5xx status
raise_for_status(status) == status >= 400 /\ status < 600

HTTPError(status) == Exc("HTTPError", Msg("{} Error for url", <<ToString(status)>>))

Result(status, detail) == [status |-> status, detail |-> detail]
NoResult == Result("", NoMsg)

\* a strict reading of the webhook convention: only the body "1" is a success
response_result_strict(status, body) ==
    IF status = 200 /\ body = "1"
    THEN Result("Success", Msg("Notification sent successfully.", <<>>))
    ELSE Result("Failure",
                Msg("Sending failed with status: {}, Response: {}",
                    <<ToString(status), body>>))

\* lines 262-272: the value returned for a response raise_for_status lets through
response_result(status, body) ==
    IF status = 200 /\ body = "1"
    THEN Result("Success", Msg("Notification sent successfully.", <<>>))
    ELSE IF status = 200
    THEN Result("Success",
                Msg("Notification sent, but response was not '1' (Status: {}).",
                    <<ToString(status)>>))
    ELSE Result("Failure",
                Msg("Sending failed with status: {}, Response: {}",
                    <<ToString(status), body>>))

\* lines 277 and 281: `if attempt == self.config.max_retries - 1`
is_last_attempt(attempt, max_retries) == attempt = max_retries - 1

\* the sleep between attempts left out
wait_never(attempt, max_retries) == FALSE

\* the delay slept after the first attempt only
wait_after_first_only(attempt, max_retries) == attempt = 0 /\ attempt < max_retries - 1

\* line 285: `if attempt < self.config.max_retries - 1`
wait_before_retry(attempt, max_retries) == attempt < max_retries - 1

\* line 278
timed_out_result == Result("Failure", Msg("Request timed out after multiple retries.", <<>>))

\* the Failure of line 282 without the text of the exception
request_failed_result_no_text(e) ==
    Result("Failure", Msg("Request failed after multiple retries.", <<>>))

\* line 282
request_failed_result(e) ==
    Result("Failure", Prefixed("Request failed after multiple retries: {}", e.msg))

\* line 290
max_retries_result == Result("Failure", Msg("Reached max retries without success.", <<>>))

\* line 64: send_notification's handler
internal_error_result(e) == Result("Failure", Prefixed("Internal tool error: {}", e.msg))

\* the exception the try block of one loop iteration ends with (NoExc: none)
attempt_exc(o) ==
    IF o.kind = "timeout" THEN Exc("Timeout", Msg("Read timed out", <<>>))
    ELSE IF o.kind = "request_error" THEN o.exc
    ELSE IF o.kind = "exception" THEN o.exc
    ELSE IF raise_for_status(o.status) THEN HTTPError(o.status)
    ELSE NoExc

\* `except Timeout` / `except RequestException` (Timeout and HTTPError are
\* RequestExceptions)
IsTimeout(e) == e.type = "Timeout"
IsRequestException(e) == e.type \in {"Timeout", "ConnectionError", "HTTPError"}

\* the last-attempt returns of the handlers left out: a failed attempt always
\* falls through to the sleep
attempt_step_always_sleep(attempt, max_retries, o) ==
    LET e == attempt_exc(o)
        step(do, result, exc) == [do |-> do, result |-> result, exc |-> exc]
    IN  IF e = NoExc THEN step("return", response_result(o.status, o.body), NoExc)
        ELSE IF ~IsRequestException(e) THEN step("raise", NoResult, e)
        ELSE step("sleep", NoResult, NoExc)

\* lines 252-287, one iteration of the loop on outcome o of the POST:
\*   [do |-> "return", result] the function returns result
\*   [do |-> "raise", exc]     the exception leaves _send_with_retry
\*   [do |-> "sleep"]          time.sleep(retry_delay), then the next iteration
\*   [do |-> "next"]           the next iteration at once
attempt_step(attempt, max_retries, o) ==
    LET e == attempt_exc(o)
        step(do, result, exc) == [do |-> do, result |-> result, exc |-> exc]
    IN  IF e = NoExc THEN step("return", response_result(o.status, o.body), NoExc)
        ELSE IF IsTimeout(e) /\ is_last_attempt(attempt, max_retries)
        THEN step("return", timed_out_result, NoExc)
        ELSE IF ~IsTimeout(e) /\ IsRequestException(e)
                /\ is_last_attempt(attempt, max_retries)
        THEN step("return", request_failed_result(e), NoExc)
        ELSE IF ~IsRequestException(e) THEN step("raise", NoResult, e)
        ELSE IF wait_before_retry(attempt, max_retries)
        THEN step("sleep", NoResult, NoExc)
        ELSE step("next", NoResult, NoExc)

\* no handler: the exception leaves send_notification
send_notification_reraise(e) == [exc |-> e, result |-> NoResult]

\* lines 59-64: what send_notification makes of an exception of its try block
\*   [exc |-> the exception that leaves send_notification, result |-> returned]
send_notification_except(e) == [exc |-> NoExc, result |-> internal_error_result(e)]

(***************************************************************************)
(* Inputs of the model                                                     *)
(***************************************************************************)
\* values handed to forward for one of its parameters
ArgValues ==
    {NoneV, Str(<<>>), Str(<<"a">>), Str(<<"a", ".", "b", "@", "c">>),
     V("int", <<"0">>), V("int", <<"7">>),
     V("bool", <<"F", "a", "l", "s", "e">>), V("bool", <<"T", "r", "u", "e">>),
     V("emptyobj", <<"[", "]">>), V("obj", <<"o">>),
     V("badstr", <<>>), V("badboth", <<>>), V("badbool", <<>>)}

\* the parameters the model varies; the others stay at their default
VariedInputs == {"LeadCompanyName", "UserTags", "mention_email"}

ForwardArgs ==
    {[DefaultArgs EXCEPT ![name] = v] : name \in VariedInputs, v \in ArgValues}

\* card_data handed to send_notification directly
DirectCards ==
    {EmptyCard,
     [EmptyCard EXCEPT !["user.name"] = Str(<<"a">>),
                       !["company.name"] = Str(<<"c">>),
                       !["mention.email"] = Str(<<"a", ".", "b", "@", "c">>)],
     [EmptyCard EXCEPT !["image.company.url"] = Str(<<"u">>),
                       !["image.company.name"] = NoneV],
     [EmptyCard EXCEPT !["company.info"] = Str(<<"i">>),
                       !["company.industry"] = V("int", <<"3">>)],
     [EmptyCard EXCEPT !["evaluation.lead_rating"] = V("int", <<"5">>)],
     [EmptyCard EXCEPT !["mention.email"] = V("int", <<"5">>)]}

(***************************************************************************)
(* State                                                                   *)
(***************************************************************************)
VARIABLES
    call,       \* call[c]: the state of notification call c (fields below)
    endpoint    \* endpoint[c]: the documents the webhook received from call c

vars == <<call, endpoint>>

\* call[c].pc          "idle" (no such call), "called", "sending", "returned", "raised"
\* call[c].entry       the method the caller invoked: "forward" or "send_notification"
\* call[c].args        forward's arguments
\* call[c].card_data   card_data of send_notification
\* call[c].max_retries config.max_retries
\* call[c].payload     the document _build_payload returned
\* call[c].state       the delivery: "NotStarted", "Pending", "Attempting",
\*                     "RetryWait", "Success", "Failure", "Raised"
\* call[c].attempt     the loop variable of _send_with_retry
\* call[c].posts       requests.post calls made
\* call[c].waits       time.sleep calls made
\* call[c].in_flight   requests.post calls that have not returned
\* call[c].outcomes    what each finished POST ended in: <<[kind, status, body]>>
\* call[c].caught      the exception send_notification's handler caught
\* call[c].result      the dict send_notification returned
\* call[c].ret         the string forward returned
\* call[c].raised      the exception that reached the caller
NewCall(entry, args, card, max_retries) ==
    [pc |-> "called", entry |-> entry, args |-> args, card_data |-> card,
     max_retries |-> max_retries, payload |-> NoDoc, state |-> "NotStarted",
     attempt |-> 0, posts |-> 0, waits |-> 0, in_flight |-> 0, outcomes |-> <<>>,
     caught |-> NoExc, result |-> NoResult, ret |-> NoMsg, raised |-> NoExc]

IdleCall == [NewCall("", DefaultArgs, EmptyCard, 0) EXCEPT !.pc = "idle"]

\* forward builds its own TeamsConfig(); a direct caller hands in any config
NewCalls ==
    {NewCall("forward", a, EmptyCard, DefaultMaxRetries) : a \in ForwardArgs}
    \cup {NewCall("send_notification", DefaultArgs, card, n) :
            card \in DirectCards, n \in MaxRetriesValues}

\* one notification call
Init ==
    /\ call \in [Calls -> NewCalls \cup {IdleCall}]
    /\ call[1] \in NewCalls
    /\ \A c \in Calls \ {1} : call[c] = IdleCall
    /\ endpoint = [c \in Calls |-> <<>>]

(***************************************************************************)
(* Operations                                                              *)
(***************************************************************************)
\* the call ends: send_notification raised sn.exc or returned sn.result
\* (forward: lines 441-450)
Finish(cr, state, sn) ==
    IF cr.entry = "forward"
    THEN [cr EXCEPT !.pc = "returned", !.state = state, !.result = sn.result,
                    !.ret = IF sn.exc # NoExc THEN tool_execution_failed(sn.exc)
                            ELSE sn.result.detail]
    ELSE IF sn.exc # NoExc
    THEN [cr EXCEPT !.pc = "raised", !.state = state, !.raised = sn.exc]
    ELSE [cr EXCEPT !.pc = "returned", !.state = state, !.result = sn.result]

\* send_notification up to the call of _send_with_retry (lines 59-61)
Compose(cr, card) ==
    LET bp == build_payload(card)
    IN  IF bp.exc # NoExc
        THEN Finish([cr EXCEPT !.card_data = card, !.caught = bp.exc],
                    "NotStarted", send_notification_except(bp.exc))
        ELSE [cr EXCEPT !.pc = "sending", !.card_data = card, !.payload = bp.doc,
                        !.state = "Pending"]

\* TeamsNotificationTool.forward (lines 383-441), up to the first POST
forward(c) ==
    /\ call[c].pc = "called" /\ call[c].entry = "forward"
    /\ LET cr == call[c]
           le == log_request_exc(cr.args)
           ve == validation_exc(cr.args)
       IN  call' = [call EXCEPT ![c] =
                IF le # NoExc THEN [cr EXCEPT !.pc = "raised", !.raised = le]
                ELSE IF ve # NoExc /\ ve.type = "ValueError"
                THEN [cr EXCEPT !.pc = "returned", !.ret = validation_failed(ve)]
                ELSE IF ve # NoExc THEN [cr EXCEPT !.pc = "raised", !.raised = ve]
                ELSE Compose(cr, custom_data(validated_data(cr.args)))]
    /\ UNCHANGED endpoint

\* TeamsNotification.send_notification (lines 58-61), up to the first POST
send_notification(c) ==
    /\ call[c].pc = "called" /\ call[c].entry = "send_notification"
    /\ call' = [call EXCEPT ![c] = Compose(call[c], call[c].card_data)]
    /\ UNCHANGED endpoint

\* the loop counter kept in one place for all calls instead of a local of
\* _send_with_retry: every POST of any call advances it
SharedAttempts ==
    LET RECURSIVE Sum(_)
        Sum(n) == IF n = 0 THEN 0 ELSE call[n].posts + Sum(n - 1)
    IN  Sum(NumCalls)

PostOrGiveUp_shared_counter(cr, attempt) ==
    IF SharedAttempts < cr.max_retries
    THEN [cr EXCEPT !.state = "Attempting", !.attempt = SharedAttempts,
                    !.posts = @ + 1, !.in_flight = @ + 1]
    ELSE Finish([cr EXCEPT !.attempt = SharedAttempts], "Failure",
                [exc |-> NoExc, result |-> max_retries_result])

\* the loop allowed one iteration more: `range(max_retries + 1)`
PostOrGiveUp_one_more(cr, attempt) ==
    IF attempt <= cr.max_retries
    THEN [cr EXCEPT !.state = "Attempting", !.attempt = attempt,
                    !.posts = @ + 1, !.in_flight = @ + 1]
    ELSE Finish([cr EXCEPT !.attempt = attempt], "Failure",
                [exc |-> NoExc, result |-> max_retries_result])

\* a do-while loop: the first POST is made whatever max_retries is
PostOrGiveUp_at_least_once(cr, attempt) ==
    IF attempt = 0 \/ attempt < cr.max_retries
    THEN [cr EXCEPT !.state = "Attempting", !.attempt = attempt,
                    !.posts = @ + 1, !.in_flight = @ + 1]
    ELSE Finish([cr EXCEPT !.attempt = attempt], "Failure",
                [exc |-> NoExc, result |-> max_retries_result])

\* requests.post is called for iteration `attempt` of the loop, or the loop is
\* over and line 290 returns
PostOrGiveUp(cr, attempt) ==
    IF attempt < cr.max_retries
    THEN [cr EXCEPT !.state = "Attempting", !.attempt = attempt,
                    !.posts = @ + 1, !.in_flight = @ + 1]
    ELSE Finish([cr EXCEPT !.attempt = attempt], "Failure",
                [exc |-> NoExc, result |-> max_retries_result])

\* _send_with_retry is entered: `for attempt in range(max_retries)` (line 251)
StartDelivery(c) ==
    /\ call[c].pc = "sending" /\ call[c].state = "Pending"
    /\ call' = [call EXCEPT ![c] = PostOrGiveUp(call[c], 0)]
    /\ UNCHANGED endpoint

\* the POST in flight ends in outcome o (lines 253-287); the endpoint has
\* processed the document whenever it answered, and may or may not have when
\* the request ended in an exception
AttemptEndsIn(c, outcomes) ==
    /\ call[c].pc = "sending" /\ call[c].state = "Attempting"
    /\ \E o \in outcomes, processed \in BOOLEAN :
        /\ o.kind = "response" => processed
        /\ LET cr == [call[c] EXCEPT
                        !.in_flight = @ - 1,
                        !.outcomes = Append(@, [kind |-> o.kind, status |-> o.status,
                                                body |-> o.body])]
               st == attempt_step(cr.attempt, cr.max_retries, o)
           IN  call' = [call EXCEPT ![c] =
                    CASE st.do = "return" ->
                            Finish(cr, st.result.status,
                                   [exc |-> NoExc, result |-> st.result])
                      [] st.do = "raise" ->
                            LET sn == send_notification_except(st.exc)
                            IN  Finish([cr EXCEPT !.caught = st.exc],
                                       IF sn.exc # NoExc THEN "Raised"
                                       ELSE sn.result.status, sn)
                      [] st.do = "sleep" ->
                            [cr EXCEPT !.state = "RetryWait", !.waits = @ + 1]
                      [] OTHER -> PostOrGiveUp(cr, cr.attempt + 1)]
        /\ endpoint' = [endpoint EXCEPT ![c] =
                            IF processed
                            THEN Append(@, post_json(call[c].payload, call[c].attempt))
                            ELSE @]

AttemptEnds(c) == AttemptEndsIn(c, Outcomes)

\* time.sleep(retry_delay) returns (line 287); the loop goes on
RetryWaitEnds(c) ==
    /\ call[c].pc = "sending" /\ call[c].state = "RetryWait"
    /\ call' = [call EXCEPT ![c] = PostOrGiveUp(call[c], call[c].attempt + 1)]
    /\ UNCHANGED endpoint

Next ==
    \E c \in Calls :
        \/ forward(c)
        \/ send_notification(c)
        \/ StartDelivery(c)
        \/ AttemptEnds(c)
        \/ RetryWaitEnds(c)

Spec == Init /\ [][Next]_vars

(***************************************************************************)
(* Properties                                                              *)
(***************************************************************************)
Finished(c) == call[c].pc \in {"returned", "raised"}

\* the POSTs of call c that have ended
Ended(c) == call[c].outcomes
LastOutcome(c) == call[c].outcomes[Len(call[c].outcomes)]

\* a failed attempt: a timeout, a connection error or a non-2xx status
IsSuccessStatus(status) == status >= 200 /\ status < 300
FailedAttempt(o) ==
    \/ o.kind \in {"timeout", "request_error"}
    \/ o.kind = "response" /\ ~IsSuccessStatus(o.status)

\* C1: send_notification never raises, whatever the card and whatever the POSTs
\* end in: no exception reaches its caller, and what it returns has a status
\* of Success or Failure and a detail text.
C1_NeverRaises ==
    \A c \in Calls :
        /\ call[c].state # "Raised"
        /\ call[c].entry = "send_notification" => call[c].pc # "raised"
        /\ (call[c].entry = "send_notification" /\ call[c].pc = "returned") =>
              /\ call[c].result.status \in {"Success", "Failure"}
              /\ call[c].result.detail.tmpl # ""

\* a direct call whose POST raised an exception that is no RequestException
\* has returned
C1_Witness ==
    \E c \in Calls :
        /\ call[c].entry = "send_notification" /\ call[c].pc = "returned"
        /\ call[c].caught.type = "TypeError" /\ call[c].posts = 1

\* C2: with max_retries >= 1, a call all of whose attempts failed (timeout,
\* connection error, non-2xx status) has made exactly max_retries POSTs when
\* it ends, and ends in Failure.
C2_ExactlyMaxAttempts ==
    \A c \in Calls :
        (/\ Finished(c) /\ call[c].max_retries >= 1 /\ Ended(c) # <<>>
         /\ \A i \in 1..Len(Ended(c)) : FailedAttempt(Ended(c)[i]))
        => /\ call[c].posts = call[c].max_retries
           /\ call[c].result.status = "Failure"

\* C3: when the first k attempts time out and attempt k+1 is answered with
\* HTTP 200 (k < max_retries), the call has ended in Success with exactly k+1
\* POSTs and exactly k sleeps, and nothing is in flight.
C3_SuccessAfterTimeouts ==
    \A c \in Calls :
        (/\ Ended(c) # <<>>
         /\ LastOutcome(c).kind = "response" /\ LastOutcome(c).status = 200
         /\ \A i \in 1..(Len(Ended(c)) - 1) : Ended(c)[i].kind = "timeout")
        => /\ call[c].pc = "returned" /\ call[c].state = "Success"
           /\ call[c].result.status = "Success"
           /\ call[c].posts = Len(Ended(c))
           /\ call[c].waits = Len(Ended(c)) - 1
           /\ call[c].in_flight = 0

\* two timeouts, then HTTP 200
C3_Witness ==
    \E c \in Calls :
        /\ Len(Ended(c)) = 3 /\ call[c].state = "Success" /\ call[c].waits = 2
        /\ Ended(c)[1].kind = "timeout" /\ Ended(c)[2].kind = "timeout"
        /\ Ended(c)[3].status = 200

\* C4: an attempt answered with HTTP 200 ends the call in Success whatever the
\* body: with the body "1" the detail is the plain success message, with any
\* other body the detail says the response was not the expected one.
C4_Http200IsSuccess ==
    \A c \in Calls :
        (/\ Ended(c) # <<>>
         /\ LastOutcome(c).kind = "response" /\ LastOutcome(c).status = 200)
        => /\ call[c].pc = "returned" /\ call[c].result.status = "Success"
           /\ LastOutcome(c).body = "1" =>
                 call[c].result.detail = Msg("Notification sent successfully.", <<>>)
           /\ LastOutcome(c).body # "1" =>
                 call[c].result.detail.tmpl
                    = "Notification sent, but response was not '1' (Status: {})."

\* HTTP 200 with a body other than "1"
C4_Witness ==
    \E c \in Calls :
        /\ Ended(c) # <<>> /\ call[c].pc = "returned"
        /\ LastOutcome(c).kind = "response" /\ LastOutcome(c).status = 200
        /\ LastOutcome(c).body = "ok"

\* C5: an attempt answered with any 2xx status ends the call in Success, never
\* in Failure.
C5_Any2xxIsSuccess ==
    \A c \in Calls :
        (/\ Ended(c) # <<>> /\ Finished(c)
         /\ LastOutcome(c).kind = "response"
         /\ IsSuccessStatus(LastOutcome(c).status))
        => call[c].result.status = "Success"

\* C6: there is no fast-fail path: a call whose last attempt failed (timeout,
\* connection error, non-2xx status) ends in Failure only once max_retries
\* POSTs have been made.
C6_NoFastFail ==
    \A c \in Calls :
        (/\ call[c].state = "Failure" /\ Ended(c) # <<>>
         /\ FailedAttempt(LastOutcome(c)))
        => call[c].posts >= call[c].max_retries

\* the steps of the delivery state machine, for call c
ReachedOnlyFromAttempting(c) ==
    (call'[c].state \in {"Success", "Failure"} /\ call'[c].state # call[c].state)
        => call[c].state = "Attempting"

NextOfPending(c) ==
    (call[c].state = "Pending" /\ call'[c].state # "Pending")
        => call'[c].state = "Attempting"

MachineSteps(c) ==
    /\ (call[c].state = "NotStarted" /\ call'[c].state # "NotStarted")
          => call'[c].state = "Pending"
    /\ (call[c].state = "Attempting" /\ call'[c].state # "Attempting")
          => call'[c].state \in {"Success", "RetryWait", "Failure"}
    /\ (call[c].state = "Attempting" /\ call'[c].state = "Attempting")
          => call'[c] = call[c]
    /\ (call[c].state = "RetryWait" /\ call'[c] # call[c])
          => call'[c].state = "Attempting" /\ call'[c].posts = call[c].posts + 1
    /\ call[c].state \in {"Success", "Failure"} =>
          /\ call'[c] = call[c]
          /\ endpoint'[c] = endpoint[c]
    /\ call[c].in_flight <= 1 /\ call'[c].in_flight <= 1
    /\ (call'[c].in_flight = 1) <=> (call'[c].state = "Attempting")

\* C7 as stated: Pending -> Attempting -> {Success | RetryWait -> Attempting |
\* Failure}; Success and Failure are reached only from Attempting, RetryWait is
\* always followed by Attempting, Success and Failure are terminal, and at
\* most one attempt is in flight.
C7_StateMachineAsStated ==
    [][\A c \in Calls :
          /\ MachineSteps(c)
          /\ NextOfPending(c)
          /\ ReachedOnlyFromAttempting(c)]_vars

\* C7: the state machine, with the one step the statement leaves out: with
\* max_retries <= 0 the call goes from Pending straight to Failure and makes
\* no attempt; in every other case Success and Failure are reached only from
\* Attempting and Pending is followed by Attempting.
C7_StateMachine ==
    [][\A c \in Calls :
          /\ MachineSteps(c)
          /\ IF call[c].state = "Pending" /\ call[c].max_retries <= 0
             THEN call'[c].state \in {"Pending", "Failure"}
                  /\ call'[c].posts = 0 /\ call'[c].waits = 0
             ELSE NextOfPending(c) /\ ReachedOnlyFromAttempting(c)]_vars

\* a call that slept between two attempts and then succeeded
C7_Witness ==
    \E c \in Calls :
        call[c].state = "Success" /\ call[c].waits >= 1 /\ call[c].posts >= 2

\* C8: an exception of composition or delivery that is neither a timeout nor
\* a request error becomes a Failure whose detail carries the exception's
\* type name.
C8_DetailNamesExceptionType ==
    \A c \in Calls :
        (call[c].caught # NoExc /\ call[c].pc = "returned")
        => /\ call[c].result.status = "Failure"
           /\ Carries(call[c].result.detail, call[c].caught.type)

\* C9: a tool call with an input that str() cannot convert returns an error
\* that names an input str() cannot convert; it builds no card and makes no
\* POST.
C9_UnconvertibleInputIsReported ==
    \A c \in Calls :
        LET bad == {name \in InputNames : call[c].args[name].k \in {"badstr", "badboth"}}
        IN  (call[c].entry = "forward" /\ call[c].pc # "called" /\ bad # {})
            => /\ call[c].pc = "returned"
               /\ \E name \in bad : Carries(call[c].ret, name)
               /\ call[c].payload = NoDoc /\ call[c].posts = 0
               /\ endpoint[c] = <<>>

\* C10: retries are not deduplicated: every document the endpoint receives
\* from a call is the call's payload, unchanged; it receives at most
\* max_retries of them (none when max_retries <= 0), and at least one
\* whenever the call ends in Success.
C10_AtLeastOnceDelivery ==
    \A c \in Calls :
        /\ \A i \in 1..Len(endpoint[c]) : endpoint[c][i] = call[c].payload
        /\ Len(endpoint[c]) <= call[c].posts
        /\ Len(endpoint[c]) <= (IF call[c].max_retries > 0
                                THEN call[c].max_retries ELSE 0)
        /\ call[c].state = "Success" => Len(endpoint[c]) >= 1

\* a timed-out attempt that the endpoint did process, re-sent: the endpoint
\* holds two copies of the document
C10_Witness ==
    \E c \in Calls :
        /\ Len(endpoint[c]) = 2 /\ endpoint[c][1] = endpoint[c][2]
        /\ Len(Ended(c)) = 2 /\ Ended(c)[1].kind = "timeout"
        /\ call[c].state = "Success"

(***************************************************************************)
(* Two concurrent notification calls                                       *)
(***************************************************************************)
\* max_retries of the direct calls that run concurrently
ConcurrentRetries == 2

\* the calls that run concurrently: direct calls and tool calls
ConcurrentCalls ==
    {NewCall("send_notification", DefaultArgs, card, ConcurrentRetries) :
        card \in {EmptyCard,
                  [EmptyCard EXCEPT !["user.name"] = Str(<<"a">>),
                                    !["mention.email"] = Str(<<"a", "@", "c">>)]}}
    \cup {NewCall("forward", a, EmptyCard, DefaultMaxRetries) :
            a \in {DefaultArgs, [DefaultArgs EXCEPT !["UserTags"] = V("badstr", <<>>)]}}

\* what a POST of a concurrent call ends in
ConcurrentOutcomes ==
    {Outcome("timeout", 0, "", NoExc),
     Outcome("response", 200, "1", NoExc),
     Outcome("response", 304, "ok", NoExc),
     Outcome("response", 500, "ok", NoExc),
     Outcome("exception", 0, "", Exc("TypeError", Msg("Object is not JSON serializable", <<>>)))}

\* calls 1 and 2 have been made
InitTwo ==
    /\ call \in [Calls -> ConcurrentCalls \cup {IdleCall}]
    /\ \A c \in Calls : (call[c] = IdleCall) <=> (c > 2)
    /\ endpoint = [c \in Calls |-> <<>>]

\* each step is a step of one of the calls
NextTwo ==
    \E c \in Calls :
        \/ forward(c)
        \/ send_notification(c)
        \/ StartDelivery(c)
        \/ AttemptEndsIn(c, ConcurrentOutcomes)
        \/ RetryWaitEnds(c)

SpecTwo == InitTwo /\ [][NextTwo]_vars

\* what call c was given: its record and its configuration
SameInputs(c, d) ==
    /\ call[c].entry = call[d].entry /\ call[c].args = call[d].args
    /\ call[c].card_data = call[d].card_data
    /\ call[c].max_retries = call[d].max_retries

\* what the endpoint answered to call c
SameResponses(c, d) ==
    call[c].outcomes = call[d].outcomes /\ call[c].caught = call[d].caught

\* two finished calls given the same inputs and the same responses have the
\* same document, the same numbers of attempts and waits, and the same outcome
SameOutcome ==
    \A c, d \in Calls :
        (Finished(c) /\ Finished(d) /\ SameInputs(c, d) /\ SameResponses(c, d))
        => /\ call[c].payload = call[d].payload
           /\ call[c].posts = call[d].posts /\ call[c].waits = call[d].waits
           /\ call[c].result = call[d].result /\ call[c].ret = call[d].ret
           /\ call[c].raised = call[d].raised

\* the POSTs of a call are its own: one per response it got, and a call
\* allowed an attempt has made one when its delivery is over
OwnAttempts ==
    \A c \in Calls :
        /\ call[c].posts = Len(call[c].outcomes) + call[c].in_flight
        /\ (call[c].state \in {"Success", "Failure"} /\ call[c].max_retries >= 1)
              => call[c].posts >= 1

\* C11: concurrent calls are independent: in every interleaving of two calls'
\* steps, a step of one call leaves the other call's state and the other
\* call's documents at the endpoint alone, and each call's document, number
\* of attempts and outcome are fixed by its own record and its own responses.
C11_CallsAreIndependent ==
    [][/\ \A c, d \in Calls :
            (c # d /\ (call'[c] # call[c] \/ endpoint'[c] # endpoint[c]))
            => (call'[d] = call[d] /\ endpoint'[d] = endpoint[d])
       /\ SameOutcome'
       /\ OwnAttempts']_vars

\* both calls have finished, their steps interleaved: call 2 made its first
\* POST while call 1 waited between attempts, and the two ended differently
C11_Witness ==
    /\ Finished(1) /\ Finished(2)
    /\ call[1].waits >= 1 /\ call[2].waits >= 1
    /\ call[1].result.status = "Success" /\ call[2].result.status = "Failure"
    /\ SameInputs(1, 2)

(***************************************************************************)
(* Composition: calls over many lead records.  A direct call is made with  *)
(* a config that allows ComposeRetries attempts, so that the records can   *)
(* be many; the tool calls deliver as forward's config has it.             *)
(***************************************************************************)
MaxFilled == 2
MaxRatingLen == 5
MaxEmailLen == 3
ComposeRetries == 0

\* the strings of at most n characters over the alphabet
StringsUpTo(alphabet, n) == UNION {[1..m -> alphabet] : m \in 0..n}

\* the sets of at most n keys of card_data
RECURSIVE KeySetsUpTo(_)
KeySetsUpTo(n) ==
    IF n = 0 THEN {{}}
    ELSE KeySetsUpTo(n - 1)
         \cup {S \cup {key} : S \in KeySetsUpTo(n - 1), key \in CardKeys}

JaneEmail ==
    <<"j", "a", "n", "e", ".", "d", "o", "e", "_", "s", "m", "i", "t", "h", "@",
      "e", "x", "a", "m", "p", "l", "e", ".", "c", "o", "m">>

\* a non-empty value of the field: a text of its own, kept as one token; the
\* fields _build_payload inspects by character are character sequences
FillValue(key) ==
    CASE key = "evaluation.lead_rating" ->
            Str(<<StarGlyph, StarGlyph, StarGlyph, StarGlyph>>)
      [] key = "mention.email" -> Str(<<"j", ".", "d", "@", "e">>)
      [] OTHER -> Str(<<key>>)

\* records with few fields filled (the others missing or ""), records with all
\* fields filled but at most one, and the record of None values
FilledCards ==
    {[key \in CardKeys |-> IF key \in S THEN FillValue(key) ELSE e] :
        S \in KeySetsUpTo(MaxFilled), e \in {Absent, Str(<<>>)}}
    \cup {[key \in CardKeys |-> IF key \in S THEN Absent ELSE FillValue(key)] :
            S \in KeySetsUpTo(1)}
    \cup {[key \in CardKeys |-> NoneV]}

\* records that vary the lead rating, alone and among other evaluation fields
RatingCards ==
    {[EmptyCard EXCEPT !["evaluation.lead_rating"] = Str(r)] :
        r \in StringsUpTo({StarGlyph, "-"}, MaxRatingLen)}
    \cup {[EmptyCard EXCEPT
             !["evaluation.lead_rating"] = Str(r),
             !["evaluation.last_month_pv"] = FillValue("evaluation.last_month_pv"),
             !["evaluation.estimated_mrr"] = FillValue("evaluation.estimated_mrr")] :
            r \in StringsUpTo({StarGlyph, "-"}, MaxRatingLen)}

\* records that vary the mention: the email, without and with a display name
EmailCards ==
    {[EmptyCard EXCEPT !["mention.email"] = Str(e), !["mention.name"] = nm] :
        e \in StringsUpTo({"a", "b", "C", "1", ".", "_", "@"}, MaxEmailLen)
              \cup {JaneEmail},
        nm \in {Absent, Str(<<>>), Str(<<"m", ".", "c">>)}}

ComposeCards == FilledCards \cup RatingCards \cup EmailCards

\* a non-empty argument of forward
FillArg(name) ==
    CASE name = "LeadScoreLevel" -> Str(<<StarGlyph, StarGlyph, StarGlyph, StarGlyph>>)
      [] name = "mention_email" -> Str(<<"j", ".", "d", "@", "e">>)
      [] OTHER -> Str(<<name>>)

\* forward called with every argument empty in one of the ways a value can be
\* empty, with one argument given, and with all of them given
ComposeArgs ==
    {[name \in InputNames |-> v] :
        v \in {Str(<<>>), NoneV, V("emptyobj", <<"[", "]">>)}}
    \cup {[DefaultArgs EXCEPT ![name] = FillArg(name)] : name \in InputNames}
    \cup {[name \in InputNames |-> FillArg(name)]}

ComposeCalls ==
    {NewCall("send_notification", DefaultArgs, card, ComposeRetries) :
        card \in ComposeCards}
    \cup {NewCall("forward", a, EmptyCard, DefaultMaxRetries) : a \in ComposeArgs}

\* what a POST of these calls ends in
ComposeOutcomes ==
    {Outcome("timeout", 0, "", NoExc), Outcome("response", 200, "1", NoExc)}

\* one notification call
InitCompose ==
    /\ \E cr \in ComposeCalls : call = [c \in Calls |-> IF c = 1 THEN cr ELSE IdleCall]
    /\ endpoint = [c \in Calls |-> <<>>]

NextCompose ==
    \E c \in Calls :
        \/ forward(c)
        \/ send_notification(c)
        \/ StartDelivery(c)
        \/ AttemptEndsIn(c, ComposeOutcomes)
        \/ RetryWaitEnds(c)

SpecCompose == InitCompose /\ [][NextCompose]_vars

\* _build_payload has returned the document of call c
Composed(c) == call[c].state # "NotStarted"

\* the sections of the document of call c, by name
SectionNames(c) ==
    {call[c].payload.body[i].sec : i \in 1..Len(call[c].payload.body)}

\* the rows of the section called sec in the document of call c
RowsOf(c, sec) ==
    LET at == {i \in 1..Len(call[c].payload.body) : call[c].payload.body[i].sec = sec}
    IN  IF at = {} THEN <<>> ELSE call[c].payload.body[CHOOSE i \in at : TRUE].rows

\* the labels of the rows of all sections of the document of call c
RowLabels(c) ==
    UNION {{call[c].payload.body[i].rows[j].label :
                j \in 1..Len(call[c].payload.body[i].rows)} :
           i \in 1..Len(call[c].payload.body)}

\* every field of the lead record of call c is empty: the arguments of
\* forward, the fields of card_data of a direct call
EmptyRecord(c) ==
    IF call[c].entry = "forward"
    THEN \A name \in InputNames : ~Truthy(call[c].args[name])
    ELSE \A key \in CardKeys : ~Truthy(call[c].card_data[key])

\* C12: the document composed from a lead record whose fields are all empty
\* has the header section as its whole body (no company, user, additional
\* info, company details, evaluation or mention section) and no entity.
C12_EmptyRecordHeaderOnly ==
    \A c \in Calls :
        (Composed(c) /\ EmptyRecord(c))
        => /\ call[c].payload.body = <<HeaderSection>>
           /\ SectionNames(c) = {"header"}
           /\ call[c].payload.entities = <<>>

\* forward was called with None for every argument and has composed
C12_Witness ==
    /\ Composed(1) /\ EmptyRecord(1)
    /\ call[1].entry = "forward" /\ call[1].args["userName"] = NoneV
    /\ Len(call[1].payload.body) = 1

\* the independently gated rows: <<section, row, anchor field>>
GatedRows ==
    {<<"user_additional_info", "Position", "user.position">>,
     <<"user_additional_info", "Note", "user.note">>,
     <<"user_additional_info", "Perspective", "user.perspective">>,
     <<"company_details", "Site", "company.website">>,
     <<"company_details", "CompanyInfo", "company.info">>,
     <<"company_details", "CompetitorCases", "company.pte_tags">>,
     <<"company_details", "SimilarCustomers", "company.similar_customers">>,
     <<"company_details", "FormMessage", "company.form_message">>,
     <<"evaluation", "LeadRating", "evaluation.lead_rating">>,
     <<"evaluation", "LastMonthPV", "evaluation.last_month_pv">>,
     <<"evaluation", "EstimatedMRR", "evaluation.estimated_mrr">>,
     <<"evaluation", "PositiveFactors", "evaluation.positive_factors">>,
     <<"evaluation", "NegativeFactors", "evaluation.negative_factors">>}

\* how many rows of the section of call c's document carry the label
RowCount(c, sec, label) ==
    Cardinality({j \in 1..Len(RowsOf(c, sec)) : RowsOf(c, sec)[j].label = label})

\* C13: each independently gated row (position, note, perspective, website,
\* company info, competitor cases, similar customers, form message, lead
\* rating, page views, estimated MRR, positive and negative factors) is in the
\* composed document, once and in its section, if and only if its own anchor
\* field is non-empty, whatever the other fields of the record are.
C13_RowIffAnchor ==
    \A c \in Calls :
        Composed(c)
        => \A g \in GatedRows :
              /\ (g[2] \in RowLabels(c)) <=> Truthy(call[c].card_data[g[3]])
              /\ RowCount(c, g[1], g[2]) = IF Truthy(call[c].card_data[g[3]]) THEN 1 ELSE 0

\* a record with every field filled but the website: the page-view row is
\* there without the website row, next to the rows of the other sections
C13_Witness ==
    /\ Composed(1)
    /\ ~Truthy(call[1].card_data["company.website"])
    /\ \A key \in CardKeys \ {"company.website"} : Truthy(call[1].card_data[key])
    /\ "LastMonthPV" \in RowLabels(1) /\ "Site" \notin RowLabels(1)
    /\ "Position" \in RowLabels(1)

\* the place of each section in the fixed order
SectionOrder ==
    <<"header", "company", "user", "user_additional_info", "company_details",
      "evaluation", "mention">>

SectionRank(sec) == CHOOSE r \in 1..Len(SectionOrder) : SectionOrder[r] = sec

\* C14: the sections present in the composed body appear in the fixed order
\* header, company identity, user identity (its contact rows inside it), user
\* additional info, company details, evaluation, mention; the header is the
\* first element and no section appears twice.
C14_SectionOrder ==
    \A c \in Calls :
        Composed(c)
        => LET body == call[c].payload.body
           IN  /\ Len(body) >= 1 /\ body[1].sec = "header"
               /\ \A i \in 1..Len(body) :
                     \E r \in 1..Len(SectionOrder) : SectionOrder[r] = body[i].sec
               /\ \A i, j \in 1..Len(body) :
                     i < j => SectionRank(body[i].sec) < SectionRank(body[j].sec)
               /\ \A i \in 1..Len(body) :
                     (\E j \in 1..Len(body[i].rows) :
                          body[i].rows[j].label \in {"Phone", "Email"})
                     => body[i].sec = "user"

\* a record with every field filled: all seven sections are in the body
C14_Witness ==
    /\ Composed(1)
    /\ \A key \in CardKeys : Truthy(call[1].card_data[key])
    /\ Len(call[1].payload.body) = Len(SectionOrder)
    /\ RowCount(1, "user", "Phone") = 1

\* C15: the mention row and the mention entity exist together or not at all:
\* both are present exactly when mention.email is non-empty (a display name
\* without an email gives neither); there is then exactly one entity, its id
\* is that email, and the row's text, the entity's text and the entity's name
\* carry the same display name.
C15_MentionRowAndEntity ==
    \A c \in Calls :
        Composed(c)
        => LET given == Truthy(call[c].card_data["mention.email"])
               entities == call[c].payload.entities
               rows == RowsOf(c, "mention")
           IN  /\ ("mention" \in SectionNames(c)) <=> given
               /\ Len(entities) = IF given THEN 1 ELSE 0
               /\ given => /\ Len(rows) = 1
                           /\ entities[1].id = call[c].card_data["mention.email"]
                           /\ entities[1].text = AtText(entities[1].name)
                           /\ rows[1].items = <<AtText(entities[1].name)>>

\* an email without a display name: one row and one entity, the derived name
\* in both
C15_Witness ==
    /\ Composed(1)
    /\ Truthy(call[1].card_data["mention.email"])
    /\ ~Truthy(call[1].card_data["mention.name"])
    /\ Len(call[1].payload.entities) = 1
    /\ RowsOf(1, "mention")[1].items = <<call[1].payload.entities[1].text>>
    /\ Len(call[1].payload.entities[1].name.s) >= 2

\* the place of the first "@" of s, Len(s) + 1 without one
FirstAt(s) ==
    IF \E i \in 1..Len(s) : s[i] = "@"
    THEN CHOOSE i \in 1..Len(s) : s[i] = "@" /\ \A j \in 1..(i - 1) : s[j] # "@"
    ELSE Len(s) + 1

\* the name derived from the email s: character i of the part before the
\* first "@" becomes a space if it is "." or "_", stays if it is not a letter,
\* and is a capital at the start of a word and a small letter inside one
IsDerivedName(name, s) ==
    /\ Len(name) = FirstAt(s) - 1
    /\ \A i \in 1..Len(name) :
          name[i] = IF s[i] \in {".", "_"} THEN " "
                    ELSE IF ~IsCased(s[i]) THEN s[i]
                    ELSE IF i = 1 \/ ~IsCased(s[i - 1]) THEN ToUpper(s[i])
                    ELSE ToLower(s[i])

\* the name _build_payload derives when the email is s and no name is given
DerivedFrom(s) == MentionName([EmptyCard EXCEPT !["mention.email"] = Str(s)]).s

JaneName ==
    <<"J", "a", "n", "e", " ", "D", "o", "e", " ", "S", "m", "i", "t", "h">>

\* C16: the mention's display name is the explicit name, unchanged, when one
\* is given; otherwise it is derived from the email: the part before the first
\* "@", "." and "_" replaced by spaces, each word title-cased
\* (jane.doe_smith@example.com gives Jane Doe Smith); deriving again from a
\* derived name returns that name.
C16_DisplayNameResolution ==
    \A c \in Calls :
        (Composed(c) /\ Truthy(call[c].card_data["mention.email"]))
        => LET card == call[c].card_data
               name == call[c].payload.entities[1].name
           IN  /\ Truthy(card["mention.name"]) => name = card["mention.name"]
               /\ ~Truthy(card["mention.name"])
                    => /\ name.k = "str"
                       /\ IsDerivedName(name.s, card["mention.email"].s)
                       /\ card["mention.email"].s = JaneEmail => name.s = JaneName
                       /\ DerivedFrom(name.s) = name.s

\* jane.doe_smith@example.com without a display name has been composed
C16_Witness ==
    /\ Composed(1)
    /\ call[1].card_data["mention.email"] = Str(JaneEmail)
    /\ ~Truthy(call[1].card_data["mention.name"])
    /\ call[1].payload.entities[1].name = Str(JaneName)

\* how many times the star glyph occurs in the rating
Stars(rating) == Cardinality({i \in 1..Len(rating.s) : rating.s[i] = StarGlyph})

\* the styles of the evaluation sections of the document of call c
EvaluationStyles(c) ==
    {call[c].payload.body[i].style :
        i \in {j \in 1..Len(call[c].payload.body) :
                  call[c].payload.body[j].sec = "evaluation"}}

\* C17: the evaluation block has the "warning" style if and only if the lead
\* rating is non-empty and holds four or more star glyphs; with three or
\* fewer stars, or without a rating, no evaluation block has it, whatever the
\* other evaluation fields are.
C17_WarningIffFourStars ==
    \A c \in Calls :
        Composed(c)
        => LET rating == call[c].card_data["evaluation.lead_rating"]
           IN  ("warning" \in EvaluationStyles(c))
               <=> (Truthy(rating) /\ Stars(rating) >= 4)

\* a rating of exactly four stars among other glyphs has given the warning style
C17_Witness ==
    /\ Composed(1)
    /\ Stars(call[1].card_data["evaluation.lead_rating"]) = 4
    /\ Len(call[1].card_data["evaluation.lead_rating"].s) = 5
    /\ EvaluationStyles(1) = {"warning"}

\* the text blocks of the page-view rows of the document of call c
PageViewTexts(c) ==
    {RowsOf(c, "evaluation")[j].items :
        j \in {k \in 1..Len(RowsOf(c, "evaluation")) :
                  RowsOf(c, "evaluation")[k].label = "LastMonthPV"}}

\* C18 as stated: with the website absent the page-view row is the plain
\* value; with both present it is one hyperlink to the website whose text is
\* the page-view value.
C18_PageViewAsStated ==
    \A c \in Calls :
        (Composed(c) /\ Truthy(call[c].card_data["evaluation.last_month_pv"]))
        => LET pv == call[c].card_data["evaluation.last_month_pv"]
               site == call[c].card_data["company.website"]
           IN  PageViewTexts(c) =
                 IF Truthy(site)
                 THEN {<<Str(<<"[">> \o pv.s \o <<"](">> \o site.s \o <<")">>)>>}
                 ELSE {<<Str(pv.s)>>}

\* C18: with the website absent the page-view row is the plain value, with no
\* hyperlink; with both present it is the plain value followed, in
\* parentheses, by a hyperlink to the website whose text is the website URL.
C18_PageViewRow ==
    \A c \in Calls :
        (Composed(c) /\ Truthy(call[c].card_data["evaluation.last_month_pv"]))
        => LET pv == call[c].card_data["evaluation.last_month_pv"]
               site == call[c].card_data["company.website"]
           IN  PageViewTexts(c) =
                 IF Truthy(site)
                 THEN {<<Str(pv.s \o <<" (">> \o <<"[">> \o site.s \o <<"](">>
                             \o site.s \o <<")">> \o <<")">>)>>}
                 ELSE {<<Str(pv.s)>>}

\* page views and website both given, and the row composed
C18_Witness ==
    /\ Composed(1)
    /\ Truthy(call[1].card_data["evaluation.last_month_pv"])
    /\ Truthy(call[1].card_data["company.website"])
    /\ ~Truthy(call[1].card_data["evaluation.lead_rating"])
    /\ RowCount(1, "evaluation", "LastMonthPV") = 1

\* C19: the company identity row is present if and only if the company name
\* or the logo URL is non-empty, and it holds one column per present field:
\* a name column iff the name is non-empty, an image column iff the logo URL
\* is non-empty, and no column for a field that is empty.
C19_CompanyRow ==
    \A c \in Calls :
        Composed(c)
        => LET name == call[c].card_data["company.name"]
               url == call[c].card_data["image.company.url"]
               rows == RowsOf(c, "company")
           IN  /\ ("company" \in SectionNames(c)) <=> (Truthy(name) \/ Truthy(url))
               /\ RowCount(c, "company", "name") = IF Truthy(name) THEN 1 ELSE 0
               /\ RowCount(c, "company", "image") = IF Truthy(url) THEN 1 ELSE 0
               /\ Len(rows) = RowCount(c, "company", "name")
                              + RowCount(c, "company", "image")
               /\ \A j \in 1..Len(rows) :
                     rows[j].items[1] = IF rows[j].label = "name" THEN name ELSE url

\* only the logo URL is given: the row holds the image column alone
C19_Witness ==
    /\ Composed(1)
    /\ ~Truthy(call[1].card_data["company.name"])
    /\ Truthy(call[1].card_data["image.company.url"])
    /\ Len(RowsOf(1, "company")) = 1
    /\ RowsOf(1, "company")[1].label = "image"

\* inputs of forward that custom_data hands on as they were stringified, and
\* the field of card_data each of them becomes
PlainInputs ==
    {<<"LeadCompanyName", "company.name">>, <<"UserTags", "user.tags">>,
     <<"userName", "user.name">>, <<"LastMonthPV", "evaluation.last_month_pv">>}

\* the text the stated rule gives: "" for None, the word of a boolean, the
\* decimal form of a number, str(value) for any other value
StringifiedAsStated(v) == IF v.k = "none" THEN <<>> ELSE v.s

\* the same, but "" for a value that is falsy and neither boolean nor number
\* (an empty list, dict, tuple or str)
Stringified(v) ==
    IF v.k = "none" THEN <<>>
    ELSE IF v.k \in {"int", "bool"} THEN v.s
    ELSE IF v.k \in {"emptyobj"} \/ v = Str(<<>>) THEN <<>>
    ELSE v.s

DependentLines ==
    {<<"user_additional_info", "Position", "user.position", "user.other_position">>,
     <<"user_additional_info", "Note", "user.note", "user.tags">>,
     <<"company_details", "Site", "company.website", "company.webpage_info">>,
     <<"company_details", "Site", "company.website", "company.webpage_tags">>,
     <<"company_details", "CompanyInfo", "company.info", "company.employee_range">>,
     <<"company_details", "CompanyInfo", "company.info", "company.industry">>,
     <<"company_details", "CompanyInfo", "company.info", "company.tags">>,
     <<"company_details", "CompanyInfo", "company.info", "company.technology_name">>,
     <<"user", "Phone", "user.name", "user.phone">>,
     <<"user", "Email", "user.name", "user.email">>}

\* the text carries the value: every character of the value occurs in it
CarriesValue(text, value) ==
    \A i \in 1..Len(value.s) : \E j \in 1..Len(text.s) : text.s[j] = value.s[i]

\* the text blocks of the rows labelled so in the section of call c's document
TextsOfRow(c, sec, label) ==
    UNION {{RowsOf(c, sec)[j].items[k] : k \in 1..Len(RowsOf(c, sec)[j].items)} :
           j \in {r \in 1..Len(RowsOf(c, sec)) : RowsOf(c, sec)[r].label = label}}

\* the text blocks of the whole document of call c
AllTexts(c) ==
    UNION {UNION {{call[c].payload.body[i].rows[j].items[k] :
                      k \in 1..Len(call[c].payload.body[i].rows[j].items)} :
                  j \in 1..Len(call[c].payload.body[i].rows)} :
           i \in 1..Len(call[c].payload.body)}

\* how many text blocks the rows labelled so hold in the section
TextCount(c, sec, label) ==
    LET rows == RowsOf(c, sec)
        RECURSIVE Sum(_)
        Sum(j) == IF j = 0 THEN 0
                  ELSE (IF rows[j].label = label THEN Len(rows[j].items) ELSE 0)
                       + Sum(j - 1)
    IN  Sum(Len(rows))

\* how many lines the non-empty dependent fields of the anchor's row make:
\* one each, industry and tags sharing one line
LinesExpected(c, label) ==
    LET card == call[c].card_data
        One(key) == IF Truthy(card[key]) THEN 1 ELSE 0
    IN  CASE label = "Position" -> One("user.other_position")
          [] label = "Note" -> One("user.tags")
          [] label = "Site" -> One("company.webpage_info") + One("company.webpage_tags")
          [] label = "CompanyInfo" ->
                One("company.employee_range") + One("company.technology_name")
                + (IF Truthy(card["company.industry"]) \/ Truthy(card["company.tags"])
                   THEN 1 ELSE 0)
          [] OTHER -> 0

\* C21: a dependent line (other position under position, user tags under
\* note, webpage summary and webpage tags under website, employee range,
\* industry/tags and technology under company info, phone and email under the
\* user name) is rendered if and only if both it and its anchor are
\* non-empty: the anchor's row holds one line per non-empty dependent field
\* and no line for an empty one, and a non-empty dependent field whose anchor
\* is empty appears nowhere in the document.
C21_DependentLines ==
    \A c \in Calls :
        Composed(c)
        => \A d \in DependentLines :
              LET anchor == call[c].card_data[d[3]]
                  dep == call[c].card_data[d[4]]
                  shown == \E t \in TextsOfRow(c, d[1], d[2]) : CarriesValue(t, dep)
              IN  /\ Truthy(dep) => (shown <=> Truthy(anchor))
                  /\ (Truthy(dep) /\ ~Truthy(anchor))
                        => \A t \in AllTexts(c) : ~CarriesValue(t, dep)
                  /\ TextCount(c, d[1], d[2]) =
                        IF ~Truthy(anchor) THEN 0
                        ELSE IF d[2] \in {"Phone", "Email"}
                        THEN (IF Truthy(dep) THEN 1 ELSE 0)
                        ELSE 1 + LinesExpected(c, d[2])

\* user tags without a note, next to a position with its other position: the
\* tags are nowhere, the other position is in the position row
C21_Witness ==
    /\ Composed(1)
    /\ Truthy(call[1].card_data["user.tags"])
    /\ ~Truthy(call[1].card_data["user.note"])
    /\ Truthy(call[1].card_data["user.position"])
    /\ Truthy(call[1].card_data["user.other_position"])
    /\ call[1].card_data["user.other_position"] \in TextsOfRow(1, "user_additional_info", "Position")
    /\ \A t \in AllTexts(1) : ~CarriesValue(t, call[1].card_data["user.tags"])

\* how many of the ended attempts of call c failed
FailedAttempts(c) ==
    Cardinality({i \in 1..Len(Ended(c)) : FailedAttempt(Ended(c)[i])})

\* C22: the delay is slept only between two attempts of a call: a call that
\* ended in Failure after max_retries attempts has slept once less than it
\* posted, a call that ended in Success has slept once per failed attempt, a
\* sleep is always followed by a further attempt, and none follows the last
\* allowed attempt or a successful one.
C22_WaitsBetweenAttempts ==
    \A c \in Calls :
        /\ call[c].posts = 0 => call[c].waits = 0
        /\ call[c].posts >= 1 =>
              call[c].waits = IF call[c].state = "RetryWait" THEN call[c].posts
                              ELSE call[c].posts - 1
        /\ call[c].state = "RetryWait" =>
              /\ call[c].attempt < call[c].max_retries - 1
              /\ FailedAttempt(LastOutcome(c))
        /\ (Finished(c) /\ call[c].state = "Failure" /\ call[c].posts >= 1
            /\ call[c].posts = call[c].max_retries)
              => call[c].waits = call[c].posts - 1
        /\ (Finished(c) /\ call[c].state = "Success")
              => /\ call[c].waits = FailedAttempts(c)
                 /\ ~FailedAttempt(LastOutcome(c))

\* three attempts, all failed, two sleeps between them
C22_Witness ==
    /\ Finished(1) /\ call[1].state = "Failure"
    /\ call[1].max_retries = 3 /\ call[1].posts = 3 /\ call[1].waits = 2
    /\ LastOutcome(1).kind = "request_error"

\* the error text of a failed attempt: str(e) of the connection error, the
\* status of a response; a timeout has none
ErrorText(o) ==
    IF o.kind = "request_error" THEN ConnectionError.msg.tmpl
    ELSE IF o.kind = "response" THEN ToString(o.status)
    ELSE ""

TimedOutDetail == Msg("Request timed out after multiple retries.", <<>>)

\* C23: when the last allowed attempt of a call has failed, the Failure detail
\* is that attempt's alone: the "timed out after multiple retries" message if
\* it timed out, a detail carrying its error text if it failed with a
\* connection error or a non-2xx status; what the earlier attempts failed
\* with (a timeout, another error text) is not in the detail.
C23_DetailOfLastAttempt ==
    \A c \in Calls :
        (/\ Finished(c) /\ call[c].posts >= 1
         /\ call[c].posts = call[c].max_retries
         /\ Len(Ended(c)) = call[c].posts /\ FailedAttempt(LastOutcome(c)))
        => LET last == LastOutcome(c)
               detail == call[c].result.detail
           IN  /\ call[c].result.status = "Failure"
               /\ last.kind = "timeout" => detail = TimedOutDetail
               /\ last.kind # "timeout"
                    => /\ detail.tmpl # TimedOutDetail.tmpl
                       /\ Carries(detail, ErrorText(last))
               /\ \A i \in 1..(Len(Ended(c)) - 1) :
                     (Ended(c)[i].kind # "timeout"
                      /\ ErrorText(Ended(c)[i]) # ErrorText(last))
                     => ~Carries(detail, ErrorText(Ended(c)[i]))

\* HTTP 500 on the first attempt, a connection error on the last allowed one
C23_Witness ==
    /\ Finished(1) /\ call[1].max_retries = 2 /\ call[1].posts = 2
    /\ Ended(1)[1].kind = "response" /\ Ended(1)[1].status = 500
    /\ LastOutcome(1).kind = "request_error"
    /\ call[1].result.status = "Failure"
    /\ Carries(call[1].result.detail, ConnectionError.msg.tmpl)

(***************************************************************************)
(* Termination: one call of each configuration, every POST ending (the     *)
(* timeout of line 257 bounds it) and every time.sleep returning, so a     *)
(* step the call can take is eventually taken.                             *)
(***************************************************************************)
LiveCalls ==
    {NewCall("send_notification", DefaultArgs, EmptyCard, n) : n \in MaxRetriesValues}
    \cup {NewCall("forward", DefaultArgs, EmptyCard, DefaultMaxRetries)}

InitLive ==
    /\ \E cr \in LiveCalls : call = [c \in Calls |-> IF c = 1 THEN cr ELSE IdleCall]
    /\ endpoint = [c \in Calls |-> <<>>]

\* the steps of call c
CallStep(c) ==
    \/ forward(c)
    \/ send_notification(c)
    \/ StartDelivery(c)
    \/ AttemptEnds(c)
    \/ RetryWaitEnds(c)

SpecLive == InitLive /\ [][Next]_vars /\ \A c \in Calls : WF_vars(CallStep(c))

\* n, or 0 when n is negative
AtLeastZero(n) == IF n < 0 THEN 0 ELSE n

\* C24: every delivery call terminates: with every POST ending and every wait
\* ending, a call that has entered delivery eventually ends in Success or
\* Failure, and it never makes more than max_retries POSTs nor more than
\* max_retries - 1 waits, whatever max_retries is and whatever the POSTs end in.
C24_Terminates ==
    /\ [](\A c \in Calls :
            /\ call[c].posts <= AtLeastZero(call[c].max_retries)
            /\ call[c].waits <= AtLeastZero(call[c].max_retries - 1))
    /\ \A c \in Calls :
          (call[c].state = "Pending")
          ~> (Finished(c) /\ call[c].state \in {"Success", "Failure"})

\* a call has ended after as many POSTs as it was allowed, the last answered
C24_Witness ==
    /\ Finished(1) /\ call[1].state = "Success"
    /\ call[1].max_retries = 3 /\ call[1].posts = 3 /\ call[1].waits = 2

\* C25: with max_retries zero or negative the delivery call makes no POST and
\* no wait, nothing reaches the endpoint, and it goes from Pending straight
\* to Failure with the detail "Reached max retries without success.".
C25_NoAttemptWithoutRetries ==
    \A c \in Calls :
        (call[c].pc # "idle" /\ call[c].max_retries <= 0)
        => /\ call[c].posts = 0 /\ call[c].waits = 0 /\ call[c].in_flight = 0
           /\ endpoint[c] = <<>>
           /\ call[c].state \in {"NotStarted", "Pending", "Failure"}
           /\ (Finished(c) /\ Composed(c))
                => /\ call[c].state = "Failure"
                   /\ call[c].result =
                        Result("Failure", Msg("Reached max retries without success.", <<>>))

\* a call configured with max_retries = -1 has ended
C25_Witness ==
    /\ Finished(1) /\ Composed(1)
    /\ call[1].max_retries = -1
    /\ call[1].state = "Failure" /\ call[1].posts = 0

\* the source URL call c was given: forward's argument, card_data's field
SuppliedSourceUrl(c) ==
    IF call[c].entry = "forward" THEN call[c].args["source_url"]
    ELSE call[c].card_data["source_url"]

\* C26: the action of the composed card opens the supplied source URL when
\* one is given and the default application URL otherwise; with an empty or
\* omitted source_url the URL is the default, never empty.
C26_ActionUrlNeverEmpty ==
    \A c \in Calls :
        Composed(c)
        => LET url == call[c].payload.action_url
           IN  /\ Truthy(SuppliedSourceUrl(c)) => url = SuppliedSourceUrl(c)
               /\ ~Truthy(SuppliedSourceUrl(c)) => url = DefaultSourceUrl
               /\ url.k = "str" /\ url.s # <<>>

====
